---------------------------- MODULE Spec2Model ----------------------------
(***************************************************************************)
(* A model of the wordle-bot solver: the knowledge state (GameData), the   *)
(* feedback evaluator (Solver::evaluate_word), the interactive session     *)
(* (Solver::run) and the simulation runner (run_simulation /               *)
(* Solver::simulate) with its statistics (SimulationResults).              *)
(*                                                                         *)
(* Words and patterns are sequences of one-character strings.  Rust        *)
(* positions 0..4 are positions 1..5 here.                                 *)
(***************************************************************************)
EXTENDS Integers, Sequences, FiniteSets, TLC

VARIABLES
    pc,           \* where the running command is (see Init, SimInit, EvalInit, GameInit)
    solver,       \* the Solver built by Solver::new: game, current_words, all_words
    weights,      \* the content of solver_config.json: a sequence of weight triples
    out,          \* the last message Solver::run printed about the line it read
    temp_solver,  \* Solver::simulate's local `temp_solver`
    target_word,  \* the hidden target of the session; evaluate_word's argument
    guess_word,   \* Solver::simulate's local `guess_word`; evaluate_word's argument
    guesses,      \* Solver::simulate's local `guesses`
    result,       \* the value Solver::simulate returned (run_simulation's `num_guesses`)
    results,      \* run_simulation's SimulationResults
    runs,         \* run_simulation's loop counter `i`
    line,         \* the LineData evaluate_word returned
    weight_tuple  \* the local `weight_tuple` of Solver::rank_words and Solver::simulate

vars == <<pc, solver, weights, out, temp_solver, target_word,
          guess_word, guesses, result, results, runs, line, weight_tuple>>

\* Option::None
None == "none"

\* the word length the program is written for
WordLen == 5

\* `max_guesses` of Solver::simulate
max_guesses == 6

\* the offset of the target subset in run_simulation
TargetOffset == 10657

---------------------------------------------------------------------------
\* Helpers on sequences

Min(a, b) == IF a <= b THEN a ELSE b

\* the elements of a sequence
Range(s) == {s[i] : i \in 1..Len(s)}

\* Vec::contains / str::contains
Contains(s, x) == \E i \in 1..Len(s) : s[i] = x

\* the positions of s holding x
Positions(s, x) == {i \in 1..Len(s) : s[i] = x}

---------------------------------------------------------------------------
\* Solver::evaluate_word

\* the five cells {letter: ' ', state: 'w'} the result starts from
InitCells == [i \in 1..WordLen |-> [letter |-> " ", state |-> "w"]]

\* remaining_counts after the loop over target_chars: occurrences per letter
\* (a letter that is no key of the map is absent from the domain)
TargetCounts(target_chars) ==
    [c \in Range(target_chars) |-> Cardinality(Positions(target_chars, c))]

\* a first loop that stops one position early (`for i in 0..4`)
RECURSIVE FirstPass_OffByOne(_, _, _, _, _)
FirstPass_OffByOne(guessed_chars, target_chars, i, cells, counts) ==
    IF i > WordLen - 1 THEN [cells |-> cells, counts |-> counts, panicked |-> FALSE]
    ELSE IF i > Len(guessed_chars) \/ i > Len(target_chars)
         THEN [cells |-> cells, counts |-> counts, panicked |-> TRUE]
    ELSE LET g == guessed_chars[i]
             t == target_chars[i]
         IN  IF g = t
             THEN FirstPass_OffByOne(guessed_chars, target_chars, i + 1,
                            [cells EXCEPT ![i] = [letter |-> g, state |-> "c"]],
                            [counts EXCEPT ![g] = @ - 1])
             ELSE FirstPass_OffByOne(guessed_chars, target_chars, i + 1,
                            [cells EXCEPT ![i].letter = g], counts)

\* the first loop, from position i on: exact matches are marked 'c' and
\* consume one remaining occurrence; the other cells only get their letter.
\* On a position either word does not have, the indexing panics.
RECURSIVE FirstPass(_, _, _, _, _)
FirstPass(guessed_chars, target_chars, i, cells, counts) ==
    IF i > WordLen THEN [cells |-> cells, counts |-> counts, panicked |-> FALSE]
    ELSE IF i > Len(guessed_chars) \/ i > Len(target_chars)
         THEN [cells |-> cells, counts |-> counts, panicked |-> TRUE]
    ELSE LET g == guessed_chars[i]
             t == target_chars[i]
         IN  IF g = t
             THEN FirstPass(guessed_chars, target_chars, i + 1,
                            [cells EXCEPT ![i] = [letter |-> g, state |-> "c"]],
                            [counts EXCEPT ![g] = @ - 1])
             ELSE FirstPass(guessed_chars, target_chars, i + 1,
                            [cells EXCEPT ![i].letter = g], counts)

\* a second loop that forgets `*count -= 1`
SecondPassNoDecrement(guessed_chars, i, cells, counts) ==
    [j \in 1..WordLen |->
        IF j < i \/ cells[j].state = "c" THEN cells[j]
        ELSE IF guessed_chars[j] \in DOMAIN counts /\ counts[guessed_chars[j]] > 0
             THEN [cells[j] EXCEPT !.state = "m"]
             ELSE [cells[j] EXCEPT !.state = "w"]]

\* the second loop, from position i on: a cell not marked 'c' is 'm' when
\* its letter still has a remaining occurrence (which it consumes), else 'w'
RECURSIVE SecondPass(_, _, _, _)
SecondPass(guessed_chars, i, cells, counts) ==
    IF i > WordLen THEN cells
    ELSE IF cells[i].state = "c"
         THEN SecondPass(guessed_chars, i + 1, cells, counts)
    ELSE LET g == guessed_chars[i]
         IN  IF g \in DOMAIN counts
             THEN IF counts[g] > 0
                  THEN SecondPass(guessed_chars, i + 1,
                                  [cells EXCEPT ![i].state = "m"],
                                  [counts EXCEPT ![g] = @ - 1])
                  ELSE SecondPass(guessed_chars, i + 1,
                                  [cells EXCEPT ![i].state = "w"], counts)
             ELSE SecondPass(guessed_chars, i + 1,
                             [cells EXCEPT ![i].state = "w"], counts)

\* a second loop that marks nothing misplaced
evaluate_word_NoMisplaced(guessed_word, target_word_) ==
    LET first == FirstPass(guessed_word, target_word_, 1, InitCells,
                           TargetCounts(target_word_))
    IN  [word |-> guessed_word, cells |-> first.cells, panicked |-> first.panicked]

\* the LineData of the guess; panicked when a word has fewer than five
\* characters (guessed_chars[i] / target_chars[i] out of bounds)
evaluate_word(guessed_word, target_word_) ==
    LET first == FirstPass(guessed_word, target_word_, 1, InitCells,
                           TargetCounts(target_word_))
    IN  IF first.panicked
        THEN [word |-> guessed_word, cells |-> first.cells, panicked |-> TRUE]
        ELSE [word |-> guessed_word,
              cells |-> SecondPass(guessed_word, 1, first.cells, first.counts),
              panicked |-> FALSE]

\* Solver::get_pattern: the states of the cells, in order
get_pattern(line_) == [i \in 1..Len(line_.cells) |-> line_.cells[i].state]

---------------------------------------------------------------------------
\* GameData

\* GameData::new (and the state GameData::reset restores)
NewGame ==
    [lines |-> <<>>,
     contains_not |-> {},
     correct_positions |-> [i \in 1..WordLen |-> None],
     misplaced_letters |-> <<>>,
     must_contain |-> {}]

\* HashMap::entry(i).or_default().insert(ch)
EntryInsert(map, i, ch) ==
    [k \in DOMAIN map \cup {i} |->
        IF k = i THEN (IF i \in DOMAIN map THEN map[i] ELSE {}) \cup {ch}
        ELSE map[k]]

\* a 'w' arm that also clears the position
AddCell_ClearOnWrong(game, i, ch, state) ==
    CASE state = "c" ->
            [game EXCEPT !.correct_positions[i] = ch,
                         !.must_contain = @ \cup {ch}]
      [] state = "m" ->
            [game EXCEPT !.misplaced_letters = EntryInsert(@, i, ch),
                         !.must_contain = @ \cup {ch}]
      [] state = "w" ->
            [game EXCEPT !.correct_positions[i] = None,
                         !.contains_not =
                             IF ch \in game.must_contain THEN @ ELSE @ \cup {ch}]
      [] OTHER -> game

\* a 'c' arm that does not insert the letter into must_contain
AddCell_NoMustOnCorrect(game, i, ch, state) ==
    CASE state = "c" -> [game EXCEPT !.correct_positions[i] = ch]
      [] state = "m" ->
            [game EXCEPT !.misplaced_letters = EntryInsert(@, i, ch),
                         !.must_contain = @ \cup {ch}]
      [] state = "w" ->
            IF ch \in game.must_contain THEN game
            ELSE [game EXCEPT !.contains_not = @ \cup {ch}]
      [] OTHER -> game

\* the `match state` of GameData::add_line at position i (i <= 5)
AddCell(game, i, ch, state) ==
    CASE state = "c" ->
            [game EXCEPT !.correct_positions[i] = ch,
                         !.must_contain = @ \cup {ch}]
      [] state = "m" ->
            [game EXCEPT !.misplaced_letters = EntryInsert(@, i, ch),
                         !.must_contain = @ \cup {ch}]
      [] state = "w" ->
            IF ch \in game.must_contain THEN game
            ELSE [game EXCEPT !.contains_not = @ \cup {ch}]
      [] OTHER -> game

\* the loop of GameData::add_line over word.chars().zip(pattern.chars()),
\* from position i on.  correct_positions[i] with i beyond the array panics.
RECURSIVE AddCells(_, _, _, _, _)
AddCells(game, word_, pattern_, i, cells) ==
    IF i > Min(Len(word_), Len(pattern_))
    THEN [game |-> game, cells |-> cells, panicked |-> FALSE]
    ELSE LET cell == [letter |-> word_[i], state |-> pattern_[i]]
         IN  IF i > WordLen /\ pattern_[i] = "c"
             THEN [game |-> game, cells |-> Append(cells, cell), panicked |-> TRUE]
             ELSE AddCells(AddCell(game, i, word_[i], pattern_[i]),
                           word_, pattern_, i + 1, Append(cells, cell))

\* GameData::add_line: the loop, then cells.try_into().expect("must be 5
\* letters"), then the push of the line.  A panic leaves the fields as the
\* loop changed them.
add_line(game, word_, pattern_) ==
    LET after == AddCells(game, word_, pattern_, 1, <<>>)
    IN  IF after.panicked \/ Len(after.cells) # WordLen
        THEN [game |-> after.game, panicked |-> TRUE]
        ELSE [game |-> [after.game EXCEPT !.lines =
                            Append(@, [word |-> word_, cells |-> after.cells])],
              panicked |-> FALSE]

---------------------------------------------------------------------------
\* Filter (crate::filter) and ranking (crate::ranking)

\* Filter::filter_words: the words consistent with the knowledge state, in
\* input order
filter_words(game, words) ==
    SelectSeq(words, LAMBDA w :
        /\ \A i \in 1..WordLen :
              game.correct_positions[i] # None => w[i] = game.correct_positions[i]
        /\ \A i \in DOMAIN game.misplaced_letters :
              \A ch \in game.misplaced_letters[i] :
                  /\ ~(i <= Len(w) /\ w[i] = ch)
                  /\ Contains(w, ch)
        /\ \A ch \in game.must_contain : Contains(w, ch)
        /\ \A ch \in game.contains_not : ~Contains(w, ch))

\* rank_words / weighted_rank: the words reordered by score.  The score
\* depends on the statistics file and the weights; the first word of the
\* ranking is some word of the input.
TopRanked(words) == Range(words)

---------------------------------------------------------------------------
\* Solver

\* Solver::new over the words read from wordlist.txt
NewSolver(words) ==
    [game |-> NewGame, current_words |-> words, all_words |-> words]

\* Solver::update_wordlist: the filter applied to current_words
update_wordlist(s) == filter_words(s.game, s.current_words)

\* an is_game_won that is content with one filled slot (`any` for `all`)
is_game_won_Any(s) == \E i \in 1..WordLen : s.game.correct_positions[i] # None

\* Solver::is_game_won
is_game_won(s) == \A i \in 1..WordLen : s.game.correct_positions[i] # None

\* Solver::get_solved_word
get_solved_word(s) ==
    IF is_game_won(s) THEN [i \in 1..WordLen |-> s.game.correct_positions[i]]
    ELSE None

\* a reset that clears the knowledge state and keeps the filtered candidates
reset_KeepCandidates(s) == [s EXCEPT !.game = NewGame]

\* Solver::reset
reset(s) == [s EXCEPT !.game = NewGame, !.current_words = s.all_words]

---------------------------------------------------------------------------
\* The inputs of the model

crane == <<"c", "r", "a", "n", "e">>
trace == <<"t", "r", "a", "c", "e">>
slate == <<"s", "l", "a", "t", "e">>
level == <<"l", "e", "v", "e", "l">>
hotel == <<"h", "o", "t", "e", "l">>

\* the letters of the words the evaluator is run on exhaustively
EvalLetters == {"a", "b", "c"}

\* the guesses and targets of EvalSpec: every five-letter word over
\* EvalLetters, and the words of the scenarios
EvalWords == [1..WordLen -> EvalLetters] \cup {crane, trace, slate, level, hotel}

\* the value of `line` before evaluate_word has returned
NoLine == [word |-> <<>>, cells |-> <<>>, panicked |-> FALSE]

\* the value of `weight_tuple` before a triple has been selected
NoTuple == <<>>

\* SimulationResults::new
NewResults ==
    [total_games |-> 0, wins |-> 0, total_guesses |-> 0,
     guess_distribution |-> <<>>]

---------------------------------------------------------------------------
\* EvalSpec: evaluate_word and get_pattern on every pair of EvalWords

EvalInit ==
    /\ pc = "eval"
    /\ guess_word \in EvalWords
    /\ target_word \in EvalWords
    /\ line = NoLine
    /\ solver = NewSolver(<<>>)
    /\ temp_solver = NewSolver(<<>>)
    /\ weights = <<>>
    /\ out = ""
    /\ guesses = 0
    /\ result = 0
    /\ results = NewResults
    /\ runs = 0
    /\ weight_tuple = NoTuple

\* let line = Self::evaluate_word(&guess_word, &target_word)
Evaluate ==
    /\ pc = "eval"
    /\ line' = evaluate_word(guess_word, target_word)
    /\ pc' = "evaluated"
    /\ UNCHANGED <<solver, weights, out, temp_solver, target_word,
                   guess_word, guesses, result, results, runs, weight_tuple>>

EvalNext == Evaluate

EvalSpec == EvalInit /\ [][EvalNext]_vars

\* the positions of the guess that `line` marks correct or misplaced and hold x
Marked(x) ==
    {i \in 1..WordLen : guess_word[i] = x /\ line.cells[i].state \in {"c", "m"}}

\* C4: for every letter x, the positions of the guess holding x that
\* evaluate_word marks correct or misplaced are at most as many as the
\* occurrences of x in the target.
C4_DuplicateConservation ==
    pc = "evaluated" =>
        \A x \in Range(guess_word) :
            Cardinality(Marked(x)) <= Cardinality(Positions(target_word, x))

\* C4 witness: a guess with a repeated letter of which one occurrence is
\* marked present and a later one absent, the target holding it once.
C4_Witness ==
    /\ pc = "evaluated"
    /\ \E i, j \in 1..WordLen :
          /\ i < j
          /\ guess_word[i] = guess_word[j]
          /\ line.cells[i].state = "m"
          /\ line.cells[j].state = "w"
          /\ Cardinality(Positions(target_word, guess_word[i])) = 1

\* C5 as stated: "crane" against "trace" is misplaced, misplaced, correct,
\* absent, correct: the pattern "mmcwc".
C5_CraneTrace_AsStated ==
    (pc = "evaluated" /\ guess_word = crane /\ target_word = trace) =>
        get_pattern(line) = <<"m", "m", "c", "w", "c">>

\* C5 amended: "crane" against "trace" is misplaced, correct, correct,
\* absent, correct (the 'r' of both words is at the same position): the
\* pattern "mccwc", each cell holding the letter of the guess.
C5_CraneTrace ==
    (pc = "evaluated" /\ guess_word = crane /\ target_word = trace) =>
        /\ get_pattern(line) = <<"m", "c", "c", "w", "c">>
        /\ line.word = crane
        /\ \A i \in 1..WordLen : line.cells[i].letter = crane[i]

\* C5 witness: "crane" has been evaluated against "trace".
C5_Witness ==
    /\ pc = "evaluated"
    /\ guess_word = crane
    /\ target_word = trace
    /\ Len(line.cells) = WordLen

\* C6: a word evaluated against itself is all correct ("ccccc").
C6_SelfAllCorrect ==
    (pc = "evaluated" /\ guess_word = target_word) =>
        get_pattern(line) = <<"c", "c", "c", "c", "c">>

\* C6 witness: a word with a repeated letter has been evaluated against itself.
C6_Witness ==
    /\ pc = "evaluated"
    /\ guess_word = target_word
    /\ guess_word = level
    /\ line.cells[5].state = "c"

---------------------------------------------------------------------------
\* GameSpec: GameData::add_line and GameData::reset called directly, with
\* well-formed and malformed arguments

\* the most lines the model ingests into one GameData
MaxLines == 2

\* the words add_line is called with: well-formed, too short, too long
GameWords ==
    {crane, level, hotel, <<"c", "r", "a", "n">>, <<"c", "r", "a", "n", "e", "s">>}

\* the patterns add_line is called with: well-formed, with a symbol outside
\* {c, m, w}, too short, too long
GamePatterns ==
    {<<"w", "w", "w", "c", "c">>, <<"c", "m", "w", "w", "w">>,
     <<"c", "x", "w", "w", "w">>,
     <<"c", "m", "w", "w">>,
     <<"w", "w", "w", "w", "w", "m">>, <<"w", "w", "w", "w", "w", "c">>}

GameInit ==
    /\ pc = "game"
    /\ solver = NewSolver(<<>>)
    /\ out = ""
    /\ temp_solver = NewSolver(<<>>)
    /\ weights = <<>>
    /\ target_word = <<>>
    /\ guess_word = <<>>
    /\ line = NoLine
    /\ guesses = 0
    /\ result = 0
    /\ results = NewResults
    /\ runs = 0
    /\ weight_tuple = NoTuple

\* game.add_line(w, p); a panic ends the program
AddLineCall(w, p) ==
    /\ pc = "game"
    /\ Len(solver.game.lines) < MaxLines
    /\ LET r == add_line(solver.game, w, p)
       IN  /\ solver' = [solver EXCEPT !.game = r.game]
           /\ pc' = IF r.panicked THEN "panicked" ELSE "game"
    /\ UNCHANGED <<weights, out, temp_solver, target_word, guess_word, guesses,
                   result, results, runs, line, weight_tuple>>

\* game.reset()
GameReset ==
    /\ pc = "game"
    /\ solver' = [solver EXCEPT !.game = NewGame]
    /\ UNCHANGED <<pc, weights, out, temp_solver, target_word,
                   guess_word, guesses, result, results, runs, line, weight_tuple>>

GameNext ==
    \/ \E w \in GameWords, p \in GamePatterns : AddLineCall(w, p)
    \/ GameReset

GameSpec == GameInit /\ [][GameNext]_vars

\* a word or verdict add_line is specified to refuse
Malformed(w, p) ==
    \/ Len(w) # 5
    \/ Len(p) # 5
    \/ \E i \in 1..Len(p) : p[i] \notin {"c", "m", "w"}

\* C10 as stated: add_line fails when the word or the verdict is not exactly
\* 5 characters long or the verdict holds a symbol outside {c, m, w}, and
\* then no field of the knowledge state is changed.
C10_MalformedFailsUnchanged ==
    [][\A w \in GameWords, p \in GamePatterns :
          (AddLineCall(w, p) /\ Malformed(w, p)) =>
              (pc' = "panicked" /\ solver'.game = solver.game)]_vars

---------------------------------------------------------------------------
\* Spec: the interactive session, Solver::run

\* the wordlist.txt of the interactive sessions of the model
SolveCorpus == <<crane, trace, level, hotel>>

\* weight triples (scaled to integers) and the solver_config.json files of
\* the model: no entry, one entry, two entries
WeightsA == <<10, 5, 1>>
WeightsB == <<1, 5, 10>>
WeightConfigs == {<<>>, <<WeightsA>>, <<WeightsA, WeightsB>>}

\* char::is_whitespace on the characters of the model
Whitespace == {" ", "\n", "\t"}

\* str::trim: leading and trailing whitespace removed
RECURSIVE trim(_)
trim(s) ==
    IF s = <<>> THEN s
    ELSE IF Head(s) \in Whitespace THEN trim(Tail(s))
    ELSE IF s[Len(s)] \in Whitespace THEN trim(SubSeq(s, 1, Len(s) - 1))
    ELSE s

\* char::to_lowercase on the characters of the model
UpperChars == <<"C", "E", "L", "M", "V", "W", "R">>
LowerChars == <<"c", "e", "l", "m", "v", "w", "r">>
LowerChar(ch) ==
    IF \E k \in 1..Len(UpperChars) : UpperChars[k] = ch
    THEN LowerChars[CHOOSE k \in 1..Len(UpperChars) : UpperChars[k] = ch]
    ELSE ch

\* str::to_lowercase
to_lowercase(s) == [i \in 1..Len(s) |-> LowerChar(s[i])]

\* `word.trim().to_lowercase()`, `pattern.trim().to_lowercase()`
Normalise(typed) == to_lowercase(trim(typed))

\* the commands of Solver::run
ExitWord == <<"e", "x", "i", "t">>
ResetWord == <<"-", "r">>

\* the lines typed at the word prompt: the commands, the corpus words, a
\* corpus word in upper case with a trailing newline, a word that is not
\* five characters long, a five-letter word that is not in the corpus
TypedWords ==
    {ExitWord, ResetWord, crane, trace, level, hotel,
     <<"L", "E", "V", "E", "L", "\n">>,
     <<"c", "r", "a", "n">>,
     <<"c", "r", "a", "t", "e">>}

\* the lines typed at the pattern prompt: well-formed verdicts, one in upper
\* case, one with a symbol outside {w, m, c}, one that is too short
TypedPatterns ==
    {<<"c", "c", "c", "c", "c">>, <<"w", "w", "w", "w", "w">>,
     <<"w", "w", "w", "c", "c">>, <<"c", "c", "c", "w", "w">>,
     <<"m", "w", "w", "w", "w">>,
     <<" ", "W", "W", "W", "C", "C">>,
     <<"w", "w", "x", "w", "w">>,
     <<"w", "w", "w">>}

\* the values of `word` and of `pattern` in Solver::run: the typed lines
\* after `trim().to_lowercase()`
ReadWords == {Normalise(typed) : typed \in TypedWords}
ReadPatterns == {Normalise(typed) : typed \in TypedPatterns}

\* a pattern test that checks the length only
PatternOk_LengthOnly(p) == Len(p) = 5

\* `pattern.len() != 5 || !pattern.chars().all(|c| "wmc".contains(c))`, negated
PatternOk(p) == Len(p) = 5 /\ \A i \in 1..Len(p) : Contains(<<"w", "m", "c">>, p[i])

\* the two tests of the word: `word.len() != 5` and
\* `!self.all_words.contains(&word)`, negated
WordOk(s, w) == Len(w) = 5 /\ Contains(s.all_words, w)

\* a rank_words that refills an empty candidate list from the corpus
RankWords_Refill(s) ==
    IF update_wordlist(s) = <<>> THEN [s EXCEPT !.current_words = s.all_words]
    ELSE [s EXCEPT !.current_words = update_wordlist(s)]

\* the effect of Solver::rank_words on the Solver, the weights being
\* non-empty: `self.current_words = self.update_wordlist()`
RankWords(s) == [s EXCEPT !.current_words = update_wordlist(s)]

\* `weights.len() - 1` with no entry overflows (a panic in a debug build) or
\* wraps to usize::MAX, and then `weights[attempt]` is out of bounds (a
\* panic): in both builds the result is a panic.
AttemptPanics(ws) == Len(ws) = 0

\* an index that is not clamped by the history: always the last triple
Attempt_AlwaysLast(game, ws) == Len(ws) - 1

\* `lines.len().min(weights.len() - 1)`: the index of the weight triple
\* (0-based), the weights being non-empty
Attempt(game, ws) == Min(Len(game.lines), Len(ws) - 1)

Init ==
    /\ pc = "active"
    /\ solver = NewSolver(SolveCorpus)
    /\ weights \in WeightConfigs
    /\ out = ""
    /\ temp_solver = NewSolver(<<>>)
    /\ target_word = <<>>
    /\ guess_word = <<>>
    /\ line = NoLine
    /\ guesses = 0
    /\ result = 0
    /\ results = NewResults
    /\ runs = 0
    /\ weight_tuple = NoTuple

\* what a turn of Solver::run's loop never touches
SolveFrame ==
    UNCHANGED <<weights, temp_solver, target_word, guess_word, guesses,
                result, results, runs, line>>

\* `if word == "exit" { break; }`
Exit(w) ==
    /\ pc = "active"
    /\ w = ExitWord
    /\ out' = "Exiting solver."
    /\ pc' = "exited"
    /\ UNCHANGED solver
    /\ UNCHANGED weight_tuple
    /\ SolveFrame

\* `if word == "-r" { self.reset(); continue; }`
ResetCmd(w) ==
    /\ pc = "active"
    /\ w = ResetWord
    /\ out' = "Solver has been reset."
    /\ solver' = reset(solver)
    /\ UNCHANGED pc
    /\ UNCHANGED weight_tuple
    /\ SolveFrame

\* the word is not five characters long or not in the wordlist: `continue`
RejectWord(w) ==
    /\ pc = "active"
    /\ w \notin {ExitWord, ResetWord}
    /\ ~WordOk(solver, w)
    /\ out' = IF Len(w) # 5 THEN "Please enter a 5-letter word."
              ELSE "not in the wordlist."
    /\ UNCHANGED <<pc, solver, weight_tuple>>
    /\ SolveFrame

\* the word is accepted, the pattern is not: `continue`
RejectPattern(w, p) ==
    /\ pc = "active"
    /\ w \notin {ExitWord, ResetWord}
    /\ WordOk(solver, w)
    /\ ~PatternOk(p)
    /\ out' = "Invalid pattern. Use only w, m, c."
    /\ UNCHANGED <<pc, solver, weight_tuple>>
    /\ SolveFrame

\* word and pattern are accepted: add_line, then the won test, then
\* rank_words (which panics on an empty weight configuration)
AcceptGuess(w, p) ==
    /\ pc = "active"
    /\ Len(solver.game.lines) < MaxLines
    /\ w \notin {ExitWord, ResetWord}
    /\ WordOk(solver, w)
    /\ PatternOk(p)
    /\ LET r == add_line(solver.game, w, p)
           ingested == [solver EXCEPT !.game = r.game]
       IN  IF r.panicked
           THEN /\ solver' = ingested
                /\ pc' = "panicked"
                /\ out' = "panic"
                /\ UNCHANGED weight_tuple
           ELSE IF is_game_won(ingested)
           THEN /\ solver' = ingested
                /\ pc' = "solved"
                /\ out' = "Congratulations! You've solved the puzzle!"
                /\ UNCHANGED weight_tuple
           ELSE IF AttemptPanics(weights)
           THEN /\ solver' = ingested
                /\ pc' = "panicked"
                /\ out' = "panic"
                /\ UNCHANGED weight_tuple
           ELSE /\ weight_tuple' = weights[Attempt(ingested.game, weights) + 1]
                /\ solver' = RankWords(ingested)
                /\ pc' = "active"
                /\ out' = "Top suggested words:"
    /\ SolveFrame

Next ==
    \/ \E w \in ReadWords : Exit(w)
    \/ \E w \in ReadWords : ResetCmd(w)
    \/ \E w \in ReadWords : RejectWord(w)
    \/ \E w \in ReadWords, p \in ReadPatterns : RejectPattern(w, p)
    \/ \E w \in ReadWords, p \in ReadPatterns : AcceptGuess(w, p)

Spec == Init /\ [][Next]_vars

---------------------------------------------------------------------------
\* SimSpec: run_simulation, Solver::simulate and SimulationResults

lolly == <<"l", "o", "l", "l", "y">>
lowly == <<"l", "o", "w", "l", "y">>

\* the wordlist.txt of the simulations of the model
SimCorpus == <<crane, trace, slate, level, hotel, lolly, lowly>>

\* the most sessions run_simulation is asked for (`num_runs`)
MaxRuns == 2

\* `target_words` of run_simulation: the words from TargetOffset on, or all
\* of them when the corpus is not longer than that
target_words(all_words) ==
    IF Len(all_words) > TargetOffset
    THEN SubSeq(all_words, TargetOffset + 1, Len(all_words))
    ELSE all_words

\* `*map.entry(k).or_insert(0) += 1`
EntryIncrement(map, k) ==
    [j \in DOMAIN map \cup {k} |->
        IF j = k THEN (IF k \in DOMAIN map THEN map[k] ELSE 0) + 1 ELSE map[j]]

\* a record_game that adds the guesses of a lost game to total_guesses
record_game_CountLosses(r, num_guesses) ==
    [total_games |-> r.total_games + 1,
     wins |-> IF num_guesses <= 6 THEN r.wins + 1 ELSE r.wins,
     total_guesses |-> r.total_guesses + num_guesses,
     guess_distribution |->
         EntryIncrement(r.guess_distribution, IF num_guesses <= 6 THEN num_guesses ELSE 7)]

\* SimulationResults::record_game
record_game(r, num_guesses) ==
    IF num_guesses <= 6
    THEN [total_games |-> r.total_games + 1,
          wins |-> r.wins + 1,
          total_guesses |-> r.total_guesses + num_guesses,
          guess_distribution |-> EntryIncrement(r.guess_distribution, num_guesses)]
    ELSE [r EXCEPT !.total_games = @ + 1,
                   !.guess_distribution = EntryIncrement(@, 7)]

\* a loop test that lets a seventh guess in
LoopContinues_OffByOne(g) == g <= max_guesses

\* `while guesses < max_guesses`
LoopContinues(g) == g < max_guesses

\* a loop that never filters the candidates before taking the suggestion
Filtered_NoFilter(s, g) == s

\* the Solver a guess of the loop is taken from: temp_solver itself for the
\* first guess, temp_solver with its candidates filtered for the later ones
Filtered(s, g) == IF g = 0 THEN s ELSE [s EXCEPT !.current_words = update_wordlist(s)]

SimInit ==
    /\ pc = "idle"
    /\ solver = NewSolver(SimCorpus)
    /\ weights \in WeightConfigs
    /\ out = ""
    /\ temp_solver = NewSolver(<<>>)
    /\ target_word = <<>>
    /\ guess_word = <<>>
    /\ line = NoLine
    /\ guesses = 0
    /\ result = 0
    /\ results = NewResults
    /\ runs = 0
    /\ weight_tuple = NoTuple

\* a head of simulate that keeps the knowledge state of the session before
SimStart_KeepKnowledge(t) ==
    /\ pc = "idle"
    /\ runs < MaxRuns
    /\ Contains(target_words(solver.all_words), t)
    /\ target_word' = t
    /\ temp_solver' = [game |-> temp_solver.game,
                       current_words |-> solver.all_words,
                       all_words |-> solver.all_words]
    /\ guesses' = 0
    /\ guess_word' = <<>>
    /\ pc' = "loop"
    /\ UNCHANGED <<solver, weights, out, result, results, runs, line, weight_tuple>>

\* one turn of run_simulation's loop up to the call of simulate, and the
\* head of simulate: the target is chosen, temp_solver is built
SimStart(t) ==
    /\ pc = "idle"
    /\ runs < MaxRuns
    /\ Contains(target_words(solver.all_words), t)
    /\ target_word' = t
    /\ temp_solver' = [game |-> NewGame,
                       current_words |-> solver.all_words,
                       all_words |-> solver.all_words]
    /\ guesses' = 0
    /\ guess_word' = <<>>
    /\ pc' = "loop"
    /\ UNCHANGED <<solver, weights, out, result, results, runs, line, weight_tuple>>

\* a turn of simulate's loop with no weight entry: `weights.len() - 1` /
\* `weights[attempt]` panics
SimPanic ==
    /\ pc = "loop"
    /\ LoopContinues(guesses)
    /\ AttemptPanics(weights)
    /\ pc' = "panicked"
    /\ UNCHANGED <<solver, weights, out, temp_solver, target_word, guess_word,
                   guesses, result, results, runs, line, weight_tuple>>

\* a turn of simulate's loop in which the ranking of the (filtered)
\* candidates is empty: get_top_suggestion_silent returns Err("No suggested
\* words remaining"), `?` returns it from simulate and from run_simulation
SimNoSuggestion ==
    /\ pc = "loop"
    /\ LoopContinues(guesses)
    /\ ~AttemptPanics(weights)
    /\ Filtered(temp_solver, guesses).current_words = <<>>
    /\ temp_solver' = Filtered(temp_solver, guesses)
    /\ weight_tuple' = weights[Attempt(temp_solver.game, weights) + 1]
    /\ pc' = "failed"
    /\ UNCHANGED <<solver, weights, out, target_word, guess_word, guesses,
                   result, results, runs, line>>

\* a turn of simulate's loop in which g is the top suggestion: the win test,
\* the safety check, then evaluate_word, get_pattern and add_line
SimGuess(g) ==
    /\ pc = "loop"
    /\ LoopContinues(guesses)
    /\ ~AttemptPanics(weights)
    /\ g \in TopRanked(Filtered(temp_solver, guesses).current_words)
    /\ weight_tuple' = weights[Attempt(temp_solver.game, weights) + 1]
    /\ guess_word' = g
    /\ guesses' = guesses + 1
    /\ LET s == Filtered(temp_solver, guesses)
           evaluated == evaluate_word(g, target_word)
           r == add_line(s.game, g, get_pattern(evaluated))
       IN  IF g = target_word
           THEN temp_solver' = s /\ result' = guesses + 1 /\ pc' = "returned"
           ELSE IF Len(g) # 5 \/ ~Contains(s.all_words, g)
           THEN temp_solver' = s /\ result' = max_guesses + 1 /\ pc' = "returned"
           ELSE /\ temp_solver' = [s EXCEPT !.game = r.game]
                /\ pc' = IF evaluated.panicked \/ r.panicked THEN "panicked" ELSE "loop"
                /\ UNCHANGED result
    /\ UNCHANGED <<solver, weights, out, target_word, results, runs, line>>

\* the loop of simulate ends: `Ok(max_guesses + 1)`
SimLoopExit ==
    /\ pc = "loop"
    /\ ~LoopContinues(guesses)
    /\ result' = max_guesses + 1
    /\ pc' = "returned"
    /\ UNCHANGED <<solver, weights, out, temp_solver, target_word, guess_word,
                   guesses, results, runs>>
    /\ UNCHANGED <<line, weight_tuple>>

\* `results.record_game(num_guesses)` and the end of the turn
RecordGame ==
    /\ pc = "returned"
    /\ results' = record_game(results, result)
    /\ runs' = runs + 1
    /\ pc' = "idle"
    /\ UNCHANGED <<solver, weights, out, temp_solver, target_word, guess_word,
                   guesses, result, line, weight_tuple>>

\* the loop of run_simulation ends: the summary is printed
SimFinish ==
    /\ pc = "idle"
    /\ runs = MaxRuns
    /\ pc' = "finished"
    /\ UNCHANGED <<solver, weights, out, temp_solver, target_word, guess_word,
                   guesses, result, results, runs, line, weight_tuple>>

SimNext ==
    \/ \E t \in Range(SimCorpus) : SimStart(t)
    \/ SimPanic
    \/ SimNoSuggestion
    \/ \E g \in Range(SimCorpus) : SimGuess(g)
    \/ SimLoopExit
    \/ RecordGame
    \/ SimFinish

SimSpec == SimInit /\ [][SimNext]_vars

---------------------------------------------------------------------------
\* MainSpec: the `solve` or the `simulate` command of main

MainInit == Init \/ SimInit

MainNext == Next \/ SimNext

MainSpec == MainInit /\ [][MainNext]_vars

---------------------------------------------------------------------------
\* Properties of the knowledge state and of the sessions

\* the turn of Solver::run's loop that reads the word w and, when the word
\* is accepted, the pattern p
Iteration(w, p) ==
    \/ Exit(w)
    \/ ResetCmd(w)
    \/ RejectWord(w)
    \/ RejectPattern(w, p)
    \/ AcceptGuess(w, p)

\* the step is the reset command of the interactive session
IsResetStep == ResetCmd(ResetWord)

\* the step starts a simulated session
IsStartStep == \E t \in Range(SimCorpus) : SimStart(t)

\* a is b with some elements left out, the order kept
RECURSIVE IsSubsequence(_, _)
IsSubsequence(a, b) ==
    IF a = <<>> THEN TRUE
    ELSE IF b = <<>> THEN FALSE
    ELSE IF Head(a) = Head(b) THEN IsSubsequence(Tail(a), Tail(b))
    ELSE IsSubsequence(a, Tail(b))

\* C1 as stated: in every reachable knowledge state no letter is both in
\* must_contain and in contains_not.
C1_NeverRequiredAndExcluded ==
    pc # "panicked" =>
    /\ solver.game.must_contain \cap solver.game.contains_not = {}
    /\ temp_solver.game.must_contain \cap temp_solver.game.contains_not = {}

\* C2 as stated: a simulated session whose filtered candidate list is empty
\* ends as a loss, simulate returning max_guesses + 1, and not with an error.
C2_EmptyCandidatesIsLoss ==
    (pc \in {"loop", "returned", "failed"} /\ temp_solver.current_words = <<>>) =>
        (pc = "returned" /\ result = max_guesses + 1)

\* the words guessed and ingested so far in the simulated session
Ingested == {temp_solver.game.lines[k].word : k \in 1..Len(temp_solver.game.lines)}

\* what C3 says of a state of a simulated session
C3_State ==
    /\ guesses <= max_guesses
    /\ pc = "loop" => (Len(temp_solver.game.lines) = guesses /\ target_word \notin Ingested)
    /\ pc = "returned" =>
          /\ result \in 1..(max_guesses + 1)
          /\ target_word \notin Ingested
          /\ result <= max_guesses <=>
                (guess_word = target_word /\ guesses = result)
          /\ result <= max_guesses => Len(temp_solver.game.lines) = result - 1
          /\ result = max_guesses + 1 =>
                (guesses = max_guesses /\ Len(temp_solver.game.lines) = max_guesses)

\* C3: a simulated session makes at most 6 guesses and always ends (every
\* turn of its loop either leaves the loop or counts one more guess, and
\* the count never passes 6); it returns k in 1..6 exactly when the k-th
\* guess is the target and no earlier one was, and 7 when six guesses were
\* made without the target.
C3_SessionBounded ==
    /\ []C3_State
    /\ [][(pc = "loop" /\ pc' = "loop") => guesses' = guesses + 1]_vars

\* C3 witness: six guesses were made, none the target, and 7 was returned.
C3_Witness ==
    /\ pc = "returned"
    /\ result = max_guesses + 1
    /\ guesses = max_guesses
    /\ guess_word # target_word

\* C7: within a session (no reset, no new simulated session) a filled
\* correct position is never made empty again.
C7_CorrectPositionsStay ==
    [][(~IsResetStep /\ ~IsStartStep) =>
          \A i \in 1..WordLen :
              /\ solver.game.correct_positions[i] # None
                    => solver'.game.correct_positions[i] # None
              /\ temp_solver.game.correct_positions[i] # None
                    => temp_solver'.game.correct_positions[i] # None]_vars

\* C7 witness: a position marked correct by the first line is still filled
\* after a second line that marked it absent.
C7_Witness ==
    /\ Len(solver.game.lines) >= 2
    /\ \E i \in 1..WordLen :
          /\ solver.game.lines[1].cells[i].state = "c"
          /\ solver.game.lines[2].cells[i].state = "w"
          /\ solver.game.correct_positions[i] # None

\* C8: the candidate list of a session only shrinks: every step but a reset
\* leaves an order-preserving sub-sequence of it; the reset, like the start
\* of a simulated session, restores the full corpus.
C8_CandidatesShrink ==
    [][/\ ~IsResetStep => IsSubsequence(solver'.current_words, solver.current_words)
       /\ IsResetStep => solver'.current_words = solver.all_words
       /\ ~IsStartStep =>
             IsSubsequence(temp_solver'.current_words, temp_solver.current_words)
       /\ IsStartStep => temp_solver'.current_words = solver.all_words]_vars

\* C8 witness: two lines were ingested, the second filtering left fewer
\* candidates than the corpus and at least one.
C8_Witness ==
    /\ pc = "active"
    /\ Len(solver.game.lines) = 2
    /\ solver.current_words # <<>>
    /\ Len(solver.current_words) < Len(solver.all_words)

\* w and p are not a guess of 5 characters from the corpus with a verdict
\* of 5 symbols from {w, m, c}, nor a command
NotAGuess(w, p) ==
    /\ w \notin {ExitWord, ResetWord}
    /\ \/ Len(w) # 5
       \/ w \notin Range(solver.all_words)
       \/ Len(p) # 5
       \/ \E i \in 1..Len(p) : p[i] \notin {"w", "m", "c"}

\* C9: in the interactive session a guess that is not 5 characters long or
\* not in the corpus, or a verdict that is not 5 symbols from {w, m, c}
\* (both as the session reads them: trimmed, in lower case), is rejected:
\* knowledge state and candidate list are unchanged, the session stays
\* active.
C9_RejectedUnchanged ==
    [][\A w \in ReadWords, p \in ReadPatterns :
          NotAGuess(w, p) =>
              (Iteration(w, p) => (solver' = solver /\ pc' = "active"))]_vars

\* C9 witness: after an accepted guess, a pattern was refused and the
\* session is active with the line of the accepted guess.
C9_Witness ==
    /\ pc = "active"
    /\ out = "Invalid pattern. Use only w, m, c."
    /\ Len(solver.game.lines) = 1

\* the step is a turn of Solver::run's loop that accepts a guess
IsAcceptStep == \E w \in ReadWords, p \in ReadPatterns : AcceptGuess(w, p)

\* the interactive session has ingested a guess and its filtered candidate
\* list is empty
NoCandidateLeft ==
    /\ solver.game.lines # <<>>
    /\ solver.current_words = <<>>

\* C11 as stated: once the filtering that follows an accepted guess leaves
\* the candidate list empty, the interactive session is in a terminal
\* state: it is not active any more and accepts no further guess.
C11_EmptyCandidatesExhausted ==
    /\ [](NoCandidateLeft => pc # "active")
    /\ [][NoCandidateLeft => ~IsAcceptStep]_vars

\* the five slots of correct_positions all hold a letter
AllFilled(s) == \A i \in 1..WordLen : s.game.correct_positions[i] # None

\* C12: the turn that accepts a guess ends the interactive session as
\* solved exactly when all five slots of correct_positions are filled after
\* the ingest (by this guess or by earlier ones); the solved word is the
\* sequence of the five slots when all are filled (the word the session
\* reports on solving), and None in every state where a slot is empty.
C12_SolvedIffAllFilled ==
    /\ [](pc = "solved" => AllFilled(solver))
    /\ [](AllFilled(solver) => get_solved_word(solver) = solver.game.correct_positions)
    /\ [](~AllFilled(solver) => get_solved_word(solver) = None)
    /\ [][IsAcceptStep => (pc' = "solved" <=> AllFilled(solver'))]_vars

\* C12 witness: the session ended solved on the second guess, neither line
\* marking all five positions correct.
C12_Witness ==
    /\ pc = "solved"
    /\ Len(solver.game.lines) = 2
    /\ \A k \in 1..2 : \E i \in 1..WordLen : solver.game.lines[k].cells[i].state # "c"
    /\ get_solved_word(solver) = solver.game.correct_positions

\* C13 as stated: with a weight configuration of no entry the command ends
\* with an error value; it never panics on `weights.len() - 1` or on
\* `weights[attempt]`.
C13_EmptyWeightsNoPanic == weights = <<>> => pc # "panicked"

\* entry min(k, n - 1), counted from 0, of the weight sequence ws of length
\* n >= 1: entry k while k < n, the last entry from then on
ClampedEntry(ws, k) == IF k >= Len(ws) THEN ws[Len(ws)] ELSE ws[k + 1]

\* the step is a turn of simulate's loop that selects a weight triple
IsSimSelectStep == SimNoSuggestion \/ \E g \in Range(SimCorpus) : SimGuess(g)

\* C14: with n >= 1 weight triples and k guesses in the history (the guess
\* just ingested included, in the interactive session), the triple selected
\* for the next suggestion is entry min(k, n - 1) of the sequence, in
\* rank_words as in simulate: from k = n on the last triple is reused.
C14_ClampedWeightIndex ==
    [][/\ (IsAcceptStep /\ pc' = "active") =>
              weight_tuple' = ClampedEntry(weights, Len(solver'.game.lines))
       /\ IsSimSelectStep =>
              weight_tuple' = ClampedEntry(weights, Len(temp_solver.game.lines))]_vars

\* C14 witness: a simulated session with two weight triples has made its
\* fourth guess, selecting the last triple again.
C14_Witness ==
    /\ pc = "loop"
    /\ Len(weights) = 2
    /\ guesses = 4
    /\ Len(temp_solver.game.lines) = 4
    /\ weight_tuple = weights[2]

\* C15: the reset command puts the interactive session back into its initial
\* state, whatever was ingested before: empty history, excluded set,
\* correct positions, misplaced map and must_contain, the candidate list
\* equal to the corpus, the session active; and no step of either command
\* changes the corpus (all_words) of a Solver.
C15_ResetRestoresInitial ==
    [][/\ IsResetStep =>
              /\ solver'.game.lines = <<>>
              /\ solver'.game.contains_not = {}
              /\ \A i \in 1..WordLen : solver'.game.correct_positions[i] = None
              /\ DOMAIN solver'.game.misplaced_letters = {}
              /\ solver'.game.must_contain = {}
              /\ solver'.current_words = solver.all_words
              /\ solver' = NewSolver(SolveCorpus)
              /\ pc' = "active"
       /\ solver'.all_words = solver.all_words
       /\ ~IsStartStep => temp_solver'.all_words = temp_solver.all_words
       /\ IsStartStep => temp_solver'.all_words = solver.all_words]_vars

\* C15 witness: the session was reset after a guess had been ingested and a
\* weight triple selected for it; it is in its initial state again.
C15_Witness ==
    /\ out = "Solver has been reset."
    /\ weight_tuple # NoTuple
    /\ pc = "active"
    /\ solver = NewSolver(SolveCorpus)

---------------------------------------------------------------------------
\* StatsSpec: SimulationResults::record_game called with any outcomes

\* the most games recorded into one SimulationResults
MaxGames == 3

\* the values Solver::simulate returns: 1..6 for a win, 7 for a loss
Outcomes == 1..(max_guesses + 1)

StatsInit ==
    /\ pc = "stats"
    /\ results = NewResults
    /\ result = 0
    /\ runs = 0
    /\ weight_tuple = NoTuple
    /\ solver = NewSolver(<<>>)
    /\ temp_solver = NewSolver(<<>>)
    /\ weights = <<>>
    /\ out = ""
    /\ target_word = <<>>
    /\ guess_word = <<>>
    /\ line = NoLine
    /\ guesses = 0

\* results.record_game(n)
RecordCall(n) ==
    /\ pc = "stats"
    /\ runs < MaxGames
    /\ result' = n
    /\ results' = record_game(results, n)
    /\ runs' = runs + 1
    /\ UNCHANGED <<pc, solver, weights, out, temp_solver, target_word,
                   guess_word, guesses, line, weight_tuple>>

StatsNext == \E n \in Outcomes : RecordCall(n)

StatsSpec == StatsInit /\ [][StatsNext]_vars

\* `guess_distribution.get(&k).unwrap_or(&0)`
Bucket(r, k) ==
    IF k \in DOMAIN r.guess_distribution THEN r.guess_distribution[k] ELSE 0

\* the games in the buckets 1..k
RECURSIVE GamesUpTo(_, _)
GamesUpTo(r, k) == IF k = 0 THEN 0 ELSE Bucket(r, k) + GamesUpTo(r, k - 1)

\* the guesses of the games in the buckets 1..k
RECURSIVE GuessesUpTo(_, _)
GuessesUpTo(r, k) == IF k = 0 THEN 0 ELSE k * Bucket(r, k) + GuessesUpTo(r, k - 1)

\* C16: after any calls of record_game with outcomes in 1..7, total_games
\* is wins plus the loss bucket, wins is the sum of the buckets 1..6,
\* total_guesses is the sum of the guess counts of the won games only; and
\* a call counts a win exactly when its outcome is at most 6, adding the
\* outcome to total_guesses then and nothing for a loss.
C16_StatsConsistent ==
    /\ [](/\ results.total_games = results.wins + Bucket(results, max_guesses + 1)
          /\ results.wins = GamesUpTo(results, max_guesses)
          /\ results.total_guesses = GuessesUpTo(results, max_guesses)
          /\ DOMAIN results.guess_distribution \subseteq Outcomes)
    /\ [][\A n \in Outcomes : RecordCall(n) =>
             /\ results'.total_games = results.total_games + 1
             /\ results'.wins = results.wins + 1 <=> n <= max_guesses
             /\ results'.wins = results.wins <=> n = max_guesses + 1
             /\ Bucket(results', n) = Bucket(results, n) + 1
             /\ results'.total_guesses =
                    results.total_guesses + (IF n <= max_guesses THEN n ELSE 0)]_vars

\* C16 witness: three games were recorded, two won with different guess
\* counts and one lost.
C16_Witness ==
    /\ pc = "stats"
    /\ results.total_games = 3
    /\ results.wins = 2
    /\ Bucket(results, max_guesses + 1) = 1
    /\ results.total_guesses = 2 + 5
    /\ Bucket(results, 2) = 1

\* C17: every simulated session starts from an empty knowledge state and
\* the full corpus as candidate list, whatever the sessions before it did;
\* no step of the simulation changes the runner's own Solver.
C17_FreshSessionRunnerUnchanged ==
    /\ []((pc = "loop" /\ guesses = 0) =>
              /\ temp_solver.game = NewGame
              /\ temp_solver.current_words = solver.all_words
              /\ temp_solver.all_words = solver.all_words)
    /\ [](solver = NewSolver(solver.all_words))
    /\ [][solver' = solver]_vars

\* C17 witness: a second session has started fresh after a first one that
\* was lost with six lines ingested.
C17_Witness ==
    /\ pc = "loop"
    /\ guesses = 0
    /\ runs = 1
    /\ Bucket(results, max_guesses + 1) = 1
    /\ temp_solver = NewSolver(SimCorpus)
    /\ solver = NewSolver(SimCorpus)

\* the letters held in correct_positions and those recorded in
\* misplaced_letters at any position
PlacedLetters(game) ==
    {game.correct_positions[i] : i \in {j \in 1..WordLen : game.correct_positions[j] # None}}
    \cup UNION {game.misplaced_letters[i] : i \in DOMAIN game.misplaced_letters}

\* C18: in every knowledge state of the interactive and of the simulated
\* session, must_contain holds every letter of correct_positions and every
\* letter recorded in misplaced_letters.
C18_MustContainSuperset ==
    /\ PlacedLetters(solver.game) \subseteq solver.game.must_contain
    /\ PlacedLetters(temp_solver.game) \subseteq temp_solver.game.must_contain

\* C18 witness: the second line overwrote a correct position of the first
\* with another letter; must_contain holds both letters.
C18_Witness ==
    /\ Len(solver.game.lines) = 2
    /\ \E i \in 1..WordLen :
          /\ solver.game.lines[1].cells[i].state = "c"
          /\ solver.game.lines[2].cells[i].state = "c"
          /\ solver.game.lines[1].cells[i].letter # solver.game.lines[2].cells[i].letter
          /\ solver.game.correct_positions[i] = solver.game.lines[2].cells[i].letter
          /\ solver.game.lines[1].cells[i].letter \in solver.game.must_contain

\* the word t satisfies every constraint of the knowledge state
Consistent(game, t) ==
    /\ \A i \in 1..WordLen :
          game.correct_positions[i] # None => t[i] = game.correct_positions[i]
    /\ \A i \in DOMAIN game.misplaced_letters :
          \A ch \in game.misplaced_letters[i] : t[i] # ch
    /\ game.must_contain \subseteq Range(t)
    /\ game.contains_not \cap Range(t) = {}

\* C19 as stated: in a simulated session, after each ingest of a verdict
\* computed by evaluate_word, the target satisfies every constraint of the
\* knowledge state: it matches the correct positions, avoids the misplaced
\* letters at their positions, holds all of must_contain and no excluded
\* letter.
C19_TargetStaysConsistent ==
    pc \in {"loop", "returned", "failed"} =>
        Consistent(temp_solver.game, target_word)

\* C20 as stated: in a simulated session the filtering that follows the
\* ingest of a guess that is not the target removes that guess, so no word
\* is guessed twice and every such guess leaves strictly fewer candidates.
C20_GuessRemovedByFilter ==
    (pc = "loop" /\ guesses > 0) =>
        /\ \A w \in Ingested : ~Contains(update_wordlist(temp_solver), w)
        /\ Cardinality(Ingested) = Len(temp_solver.game.lines)
        /\ Len(update_wordlist(temp_solver)) < Len(temp_solver.current_words)

\* C21: the candidate list of a Solver holds corpus words only; every
\* guess of a simulated session is a five-letter corpus word taken from the
\* candidate list, the first from the full corpus and each later one from
\* the list filtered against all the lines ingested so far; so simulate
\* returns 7 only at the end of its loop, with six lines ingested, never
\* from its safety check.
C21_GuessesFromCandidates ==
    /\ [](/\ Range(solver.current_words) \subseteq Range(solver.all_words)
          /\ Range(temp_solver.current_words) \subseteq Range(temp_solver.all_words))
    /\ []((pc \in {"loop", "returned"} /\ guesses > 0) =>
              /\ Len(guess_word) = WordLen
              /\ guess_word \in Range(temp_solver.all_words))
    /\ []((pc = "returned" /\ result = max_guesses + 1) =>
              Len(temp_solver.game.lines) = max_guesses)
    /\ [][(pc = "loop" /\ guesses' = guesses + 1) =>
              IF guesses = 0
              THEN /\ temp_solver.current_words = temp_solver.all_words
                   /\ guess_word' \in Range(temp_solver.all_words)
              ELSE guess_word' \in Range(filter_words(temp_solver.game,
                                                      temp_solver.current_words))]_vars

\* C21 witness: the second guess of a session was taken from a candidate
\* list that the filtering had made shorter than the corpus.
C21_Witness ==
    /\ pc = "loop"
    /\ guesses = 2
    /\ Len(temp_solver.game.lines) = 2
    /\ Len(temp_solver.current_words) < Len(temp_solver.all_words)
    /\ guess_word \in Range(temp_solver.current_words)
    /\ guess_word # temp_solver.game.lines[1].word

===========================================================================
